---- MODULE Spec2Model ----
(***************************************************************************)
(* Model of the DMARC analyzer API (src/api/app.py): a Flask facade over   *)
(* an Elasticsearch index and a Redis response cache, with a WebSocket     *)
(* broadcast on ingest.  Each HTTP handler is one action; the search       *)
(* engine, the cache store and the socket transport are external, so the   *)
(* outcome of every call to them is an input of the action.                *)
(*                                                                         *)
(* Python values: a dict is a sequence of <<key, value>> pairs in          *)
(* insertion order; None is the string None; a numeric query-string value  *)
(* is a string that int() converts through IntLiterals.                    *)
(***************************************************************************)
EXTENDS Integers, Sequences, FiniteSets, TLC

VARIABLES es, redis_client, hashseed, cache, store, uuids, resp, inflight

vars == <<es, redis_client, hashseed, cache, store, uuids, resp, inflight>>

\* ---------------------------------------------------------------- bounds
\* ingest requests that reach the stamping step (app.py:395) in one run
MaxIngest == 1
\* largest hit total the search engine reports
MaxTotal == 3
\* width of the modelled string hash
HashBits == 12
\* reports written in one run of the ingest specification
MaxReports == 2
\* requests the server handles at the same time
MaxWorkers == 2

\* ------------------------------------------------------ program constants
MAX_PAGE_SIZE == 100
DEFAULT_PAGE == "1"
DEFAULT_SIZE == "20"
DEFAULT_TOP_SIZE == "10"
DEFAULT_WINDOW_DAYS == 30
ES_INDEX_PREFIX == "parsedmarc-aggregate"

None == "None"

\* ------------------------------------------------------- python helpers
\* dict.get(k, default) on an insertion-ordered dict
DictGet(d, k, default) ==
    IF \E i \in DOMAIN d : d[i][1] = k
    THEN d[CHOOSE i \in DOMAIN d : d[i][1] = k][2]
    ELSE default

\* truthiness of an optional string: None and '' are falsy
Truthy(v) == v # None /\ v # ""

\* the decimal strings the requests of this model carry, with their values
IntLiterals ==
    { <<"-1", -1>>, <<"0", 0>>, <<"1", 1>>, <<"2", 2>>, <<"3", 3>>,
      <<"5", 5>>, <<"10", 10>>, <<"20", 20>>, <<"150", 150>> }

\* int(s) raises ValueError on a non-numeric string
IsIntLiteral(s) == \E p \in IntLiterals : p[1] = s

int(s) == (CHOOSE p \in IntLiterals : p[1] = s)[2]

Min(a, b) == IF a <= b THEN a ELSE b

\* Python floor division a // b, b # 0 (rounds towards minus infinity)
FloorDiv(a, b) == IF b > 0 THEN a \div b ELSE (0 - a) \div (0 - b)

\* datetime.isoformat() of the days this model's clock and windows reach
IsoDates ==
    { <<-29, "1999-12-02T00:00:00">>, <<-28, "1999-12-03T00:00:00">>,
      <<-27, "1999-12-04T00:00:00">>,
      <<1, "2000-01-01T00:00:00">>, <<2, "2000-01-02T00:00:00">>,
      <<3, "2000-01-03T00:00:00">> }

isoformat(day) == (CHOOSE p \in IsoDates : p[1] = day)[2]

\* the day a date string denotes to the search engine
DayOf(date) == (CHOOSE p \in IsoDates : p[2] = date)[1]

\* ------------------------------------------------------ external inputs
\* datetime.utcnow(): the wall clock, read once per request
Clock == {1, 2}

\* outcome of one call on the Elasticsearch client: it returns, the node
\* cannot be reached (ConnectionError), or the node answers with an error
EsOutcomes == {"ok", "ConnectionError", "RequestError"}

\* outcome of one call on the Redis client / on socketio.emit
CallOutcomes == {"ok", "raise"}

\* PYTHONHASHSEED of the process: hash() of a str is seeded per process
Seeds == {0, 1}

\* ------------------------------------------------------ request bodies
\* policy_published of a posted report: key absent, JSON null, or an
\* object with or without a domain
PolicyValues ==
    { [t |-> "absent", domain |-> None],
      [t |-> "null", domain |-> None],
      [t |-> "object", domain |-> None],
      [t |-> "object", domain |-> "y.com"] }

\* a posted body: no bytes, blanks only, bytes that are not JSON, or a JSON
\* value (null, {}, a number, a non-empty array, a non-empty object).  Of an
\* object the model keeps org_name (None: no such key), policy_published
\* and the disposition of its one record (None: no records)
ObjectBody(o, p, d) ==
    [kind |-> "object", org_name |-> o, policy_published |-> p,
     disposition |-> d]

OtherBody(k) ==
    [kind |-> k, org_name |-> None,
     policy_published |-> [t |-> "absent", domain |-> None],
     disposition |-> None]

Bodies ==
    { OtherBody(k) : k \in {"empty", "blank", "malformed", "null",
                            "emptyobj", "number", "array"} }
    \cup { ObjectBody(o, p, d) : o \in {None, "", "X"}, p \in PolicyValues,
                                d \in {None, "reject"} }

\* the bodies the service specification posts
ServiceBodies ==
    { OtherBody("empty"), OtherBody("array"),
      ObjectBody("X", [t |-> "object", domain |-> "y.com"], "reject"),
      ObjectBody(None, [t |-> "absent", domain |-> None], None) }

\* ------------------------------------------------------ error handlers
\* @app.errorhandler(Exception): the status and body of an exception that
\* leaves a view function
handle_all_exceptions(error) ==
    IF error = "BadRequest"
    THEN [status |-> 400, json |-> [error |-> "Invalid or malformed JSON"]]
    ELSE [status |-> 500, json |-> [error |-> "Internal server error"]]

\* the response record of a request: what was asked, what was answered,
\* the external calls made in order, the events broadcast, and the body
\* sent to the search engine (NoQuery when none was sent)
NoQuery == [sent |-> FALSE]

Response(endpoint, request, status, json, effects, events, query) ==
    [endpoint |-> endpoint, request |-> request, status |-> status,
     json |-> json, effects |-> effects, events |-> events, query |-> query]

Unavailable(endpoint, request) ==
    Response(endpoint, request, 503,
             [error |-> "Elasticsearch not available"], <<>>, <<>>, NoQuery)

\* ------------------------------------------------------------ cache keys
\* code points of the pieces the modelled strings are made of
TokenCodes ==
    { <<"{", 1>>, <<"}", 2>>, <<":", 3>>, <<",", 4>>, <<"size", 5>>,
      <<"page", 6>>, <<"5", 7>>, <<"10", 8>>, <<"2", 9>>, <<"abc", 10>> }

TokenCode(tok) == (CHOOSE p \in TokenCodes : p[1] = tok)[2]

\* str(params): the repr of a dict lists its items in insertion order,
\* "{k1: v1, k2: v2}"
RECURSIVE ItemTokens(_)
ItemTokens(items) ==
    IF items = <<>> THEN <<>>
    ELSE <<items[1][1], ":", items[1][2]>>
         \o (IF Len(items) > 1 THEN <<",">> ELSE <<>>)
         \o ItemTokens(Tail(items))

str(params) == <<"{">> \o ItemTokens(params) \o <<"}">>

\* hash(s) of a str: a seeded hash of the characters in order, modelled as
\* a seeded polynomial hash of HashBits bits
RECURSIVE HashFrom(_, _)
HashFrom(h, toks) ==
    IF toks = <<>> THEN h
    ELSE HashFrom((h * 31 + TokenCode(toks[1])) % (2 ^ HashBits), Tail(toks))

hash(s) == HashFrom((hashseed * 131 + 7) % (2 ^ HashBits), s)

get_cache_key(endpoint, params) == <<"api", endpoint, hash(str(params))>>

\* --------------------------------------------------------- cache gateway
Miss == [hit |-> FALSE, data |-> None]

Hit(data) == [hit |-> TRUE, data |-> data]

\* (mutant) the lookup always misses
get_cached_response_never_hits(key, out) == Miss

\* get_cached_response(key): the cached payload, or a miss when there is no
\* client, the key is not stored or the store raises.  out is the outcome
\* of redis_client.get
get_cached_response(key, out) ==
    IF redis_client /\ out = "ok" /\ key \in DOMAIN cache
    THEN Hit(cache[key])
    ELSE Miss

\* cache_response(key, data): the cache after the setex, unchanged when
\* there is no client or the store raises.  out is the outcome of setex
cache_response(key, data, out) ==
    IF redis_client /\ out = "ok"
    THEN [k \in DOMAIN cache \cup {key} |-> IF k = key THEN data ELSE cache[k]]
    ELSE cache

\* an external call and its outcome, as the response record logs it
Call(name, out) == << <<name, out>> >>

\* the calls a cache read / write makes on the store
GetEffects(out) == IF redis_client THEN Call("redis.get", out) ELSE <<>>

SetEffects(out) == IF redis_client THEN Call("redis.setex", out) ELSE <<>>

\* redis_client.keys("api:*")
NamespaceKeys == {k \in DOMAIN cache : k[1] = "api"}

EmptyCache == [k \in {} |-> None]

\* ---------------------------------------------------------------- ingest
\* request.get_json(silent=True): None for bytes that are not JSON and for
\* the JSON value null
JsonIsNone(body) == body.kind \in {"malformed", "null"}

\* (mutant) the parsed value is never tested for emptiness
JsonIsFalsy_untested(body) == FALSE

\* "not data" for the parsed value: the empty object is falsy
JsonIsFalsy(body) == body.kind = "emptyobj"

\* data['@timestamp'] = ... raises TypeError unless data is a dict
SupportsItemAssignment(body) == body.kind \in {"object", "emptyobj"}

\* the document handed to es.index: the posted fields plus the stamps
Stamped(body, now) ==
    [org_name |-> body.org_name,
     policy_published |-> body.policy_published,
     disposition |-> body.disposition,
     timestamp |-> isoformat(now),
     processed_by |-> "dmarc-api",
     processing_id |-> uuids + 1]

\* the index the document is written to: prefix-YYYY.MM.DD of the clock
IndexName(now) == <<ES_INDEX_PREFIX, now>>

\* es.index(...) returns {_id, _index}; the engine assigns the id
IndexResult(now) == [id |-> Len(store) + 1, index |-> IndexName(now)]

\* (mutant) the failure of es.index is swallowed and the handler goes on
IndexRaises_swallowed(idx) == FALSE

\* es.index raised: the statements after it do not run
IndexRaises(idx) == idx # "ok"

\* data.get('policy_published', {}).get('domain') raises AttributeError
\* when the posted policy_published is null
DomainLookupRaises(body) == body.policy_published.t = "null"

DomainOf(body) == body.policy_published.domain

\* the message socketio.emit broadcasts for a new report
NewReportEvent(body, now) ==
    [event |-> "live_update",
     type |-> "new_report",
     data |-> [id |-> IndexResult(now).id,
               org_name |-> body.org_name,
               domain |-> DomainOf(body),
               timestamp |-> Stamped(body, now).timestamp],
     timestamp |-> isoformat(now)]

\* emit_live_update swallows a failing emit: nothing is broadcast then
emit_live_update(event, emitOut) ==
    IF emitOut = "ok" THEN <<event>> ELSE <<>>

Raised(endpoint, request, error, effects) ==
    Response(endpoint, request, handle_all_exceptions(error).status,
             handle_all_exceptions(error).json, effects, <<>>, NoQuery)

\* "Clear relevant caches" (app.py:406-410), run after a successful write:
\* the calls made, whether one of them raised, and the cache afterwards

FlushRaises(keysOut, delOut) ==
    /\ redis_client
    /\ \/ keysOut # "ok"
       \/ NamespaceKeys # {} /\ delOut # "ok"

FlushEffects(keysOut, delOut) ==
    IF ~redis_client THEN <<>>
    ELSE IF keysOut # "ok" \/ NamespaceKeys = {}
    THEN Call("redis.keys", keysOut)
    ELSE Call("redis.keys", keysOut) \o Call("redis.delete", delOut)

FlushedCache(keysOut, delOut) ==
    IF redis_client /\ ~FlushRaises(keysOut, delOut)
    THEN [k \in DOMAIN cache \ NamespaceKeys |-> cache[k]]
    ELSE cache

\* process_report: the response and the state it leaves
process_report_run(body, now, idx, keysOut, delOut, emitOut) ==
    LET ep == "process_report"
        same == [cache |-> cache, store |-> store, uuids |-> uuids]
        doc == Stamped(body, now) @@ [id |-> IndexResult(now).id,
                                      index |-> IndexResult(now).index]
    IN
    IF ~es THEN same @@ [resp |-> Unavailable(ep, body)]
    ELSE IF body.kind \in {"empty", "blank"} THEN
        same @@ [resp |-> Response(ep, body, 400,
                    [error |-> "No data provided"], <<>>, <<>>, NoQuery)]
    ELSE IF JsonIsNone(body) THEN
        same @@ [resp |-> Response(ep, body, 400,
                    [error |-> "Invalid or empty JSON"], <<>>, <<>>, NoQuery)]
    ELSE IF JsonIsFalsy(body) THEN
        same @@ [resp |-> Response(ep, body, 400,
                    [error |-> "No data provided"], <<>>, <<>>, NoQuery)]
    ELSE IF ~SupportsItemAssignment(body) THEN
        same @@ [resp |-> Raised(ep, body, "TypeError", <<>>)]
    ELSE IF IndexRaises(idx) THEN
        [cache |-> cache, store |-> store, uuids |-> uuids + 1,
         resp |-> Raised(ep, body, idx, Call("es.index", idx))]
    ELSE IF FlushRaises(keysOut, delOut) THEN
        [cache |-> cache, store |-> Append(store, doc), uuids |-> uuids + 1,
         resp |-> Raised(ep, body, "RedisError",
                         Call("es.index", idx) \o FlushEffects(keysOut, delOut))]
    ELSE IF DomainLookupRaises(body) THEN
        [cache |-> FlushedCache(keysOut, delOut),
         store |-> Append(store, doc), uuids |-> uuids + 1,
         resp |-> Raised(ep, body, "AttributeError",
                         Call("es.index", idx) \o FlushEffects(keysOut, delOut))]
    ELSE
        [cache |-> FlushedCache(keysOut, delOut),
         store |-> Append(store, doc), uuids |-> uuids + 1,
         resp |-> Response(ep, body, 200,
                    [success |-> TRUE, id |-> IndexResult(now).id,
                     index |-> IndexResult(now).index],
                    Call("es.index", idx) \o FlushEffects(keysOut, delOut)
                        \o Call("socketio.emit", emitOut),
                    emit_live_update(NewReportEvent(body, now), emitOut),
                    NoQuery)]

process_report(body, now, idx, keysOut, delOut, emitOut) ==
    /\ LET r == process_report_run(body, now, idx, keysOut, delOut, emitOut)
       IN /\ resp' = r.resp
          /\ cache' = r.cache
          /\ store' = r.store
          /\ uuids' = r.uuids
    /\ UNCHANGED <<inflight, es, redis_client, hashseed>>

\* --------------------------------------------------------- query builder
\* the clauses of the query DSL this service builds
TermClause(field, value) ==
    [kind |-> "term", path |-> None, field |-> field, value |-> value,
     bounds |-> <<>>]

NestedClause(path, field, value) ==
    [kind |-> "nested", path |-> path, field |-> field, value |-> value,
     bounds |-> <<>>]

RangeClause(field, bounds) ==
    [kind |-> "range", path |-> None, field |-> field, value |-> None,
     bounds |-> bounds]

MatchAll == [kind |-> "match_all", filter |-> <<>>]

BoolFilter(filters) == [kind |-> "bool", filter |-> filters]

\* (mutant) the domain filter is left out of the query
DomainClause_dropped(domain) == <<>>

\* get_reports, "Build Elasticsearch query": one clause per truthy filter
OrgClause(org_name) ==
    IF Truthy(org_name)
    THEN <<TermClause("org_name.keyword", org_name)>> ELSE <<>>

DomainClause(domain) ==
    IF Truthy(domain)
    THEN <<TermClause("policy_published.domain.keyword", domain)>> ELSE <<>>

DispositionClause(disposition) ==
    IF Truthy(disposition)
    THEN <<NestedClause("records",
                        "records.policy_evaluated.disposition.keyword",
                        disposition)>>
    ELSE <<>>

ListingDateRange(date_from, date_to) ==
    (IF Truthy(date_from) THEN << <<"gte", date_from>> >> ELSE <<>>)
    \o (IF Truthy(date_to) THEN << <<"lte", date_to>> >> ELSE <<>>)

DateClause(date_from, date_to) ==
    IF Truthy(date_from) \/ Truthy(date_to)
    THEN <<RangeClause("@timestamp", ListingDateRange(date_from, date_to))>>
    ELSE <<>>

ListingFilters(args) ==
    OrgClause(DictGet(args, "org_name", None))
    \o DomainClause(DictGet(args, "domain", None))
    \o DispositionClause(DictGet(args, "disposition", None))
    \o DateClause(DictGet(args, "date_from", None),
                  DictGet(args, "date_to", None))

ListingQuery(args) ==
    IF ListingFilters(args) # <<>>
    THEN BoolFilter(ListingFilters(args))
    ELSE MatchAll

\* get_reports, pagination: the effective size and the offset
EffectiveSize(args) ==
    Min(int(DictGet(args, "size", DEFAULT_SIZE)), MAX_PAGE_SIZE)

PageOf(args) == int(DictGet(args, "page", DEFAULT_PAGE))

FromIndex(page, size) == (page - 1) * size

\* the body get_reports hands to es.search
ListingSearchBody(args) ==
    [sent |-> TRUE,
     query |-> ListingQuery(args),
     size |-> EffectiveSize(args),
     from |-> FromIndex(PageOf(args), EffectiveSize(args)),
     sort |-> <<"@timestamp", "desc">>]

\* 'pages': (total + size - 1) // size
PagesOf(total, size) == FloorDiv(total + size - 1, size)

\* --------------------------------------------------------- search engine
\* The engine is external: what it holds is the documents this service
\* wrote (store); documents of other writers show only in the totals.
BoundHolds(doc, bound) ==
    IF bound[1] = "gte"
    THEN DayOf(doc.timestamp) >= DayOf(bound[2])
    ELSE DayOf(doc.timestamp) <= DayOf(bound[2])

ClauseMatches(doc, clause) ==
    IF clause.kind = "range"
    THEN \A i \in DOMAIN clause.bounds : BoundHolds(doc, clause.bounds[i])
    ELSE IF clause.kind = "nested"
    THEN doc.disposition = clause.value
    ELSE IF clause.field = "org_name.keyword"
    THEN doc.org_name = clause.value
    ELSE doc.policy_published.domain = clause.value

QueryMatches(doc, query) ==
    \A i \in DOMAIN query.filter : ClauseMatches(doc, query.filter[i])

RECURSIVE Matching(_, _)
Matching(docs, query) ==
    IF docs = <<>> THEN <<>>
    ELSE (IF QueryMatches(docs[1], query) THEN <<docs[1]>> ELSE <<>>)
         \o Matching(Tail(docs), query)

\* newest first
RECURSIVE InsertDesc(_, _)
InsertDesc(doc, sorted) ==
    IF sorted = <<>> THEN <<doc>>
    ELSE IF DayOf(doc.timestamp) >= DayOf(sorted[1].timestamp)
    THEN <<doc>> \o sorted
    ELSE <<sorted[1]>> \o InsertDesc(doc, Tail(sorted))

RECURSIVE SortDesc(_)
SortDesc(docs) ==
    IF docs = <<>> THEN <<>>
    ELSE InsertDesc(docs[1], SortDesc(Tail(docs)))

\* the hits of a page; an engine that accepts a negative offset or size
\* returns no hit for it
Window(docs, from, size) ==
    IF from < 0 \/ size <= 0 THEN <<>>
    ELSE SubSeq(docs, from + 1, Min(from + size, Len(docs)))

SearchHits(body) ==
    Window(SortDesc(Matching(store, body.query)), body.from, body.size)

\* the totals an engine holding store can report for a query
SearchTotals(body) ==
    {t \in 0..MaxTotal : t >= Len(Matching(store, body.query))}

\* --------------------------------------------------------------- listing
\* request.args of the listing requests: a dict of the given parameters
Arg(name, value) == IF value = None THEN <<>> ELSE << <<name, value>> >>

ListingArgs(page, size, org_name, domain, disposition, date_from, date_to) ==
    Arg("page", page) \o Arg("size", size) \o Arg("org_name", org_name)
    \o Arg("domain", domain) \o Arg("disposition", disposition)
    \o Arg("date_from", date_from) \o Arg("date_to", date_to)

\* int(...) of page or size raises ValueError
ListingArgsRaise(args) ==
    \/ ~IsIntLiteral(DictGet(args, "page", DEFAULT_PAGE))
    \/ ~IsIntLiteral(DictGet(args, "size", DEFAULT_SIZE))

\* reports: each hit's _source with its _id
ListingResult(args, total, hits) ==
    [reports |-> hits,
     total |-> total,
     page |-> PageOf(args),
     size |-> EffectiveSize(args),
     pages |-> PagesOf(total, EffectiveSize(args))]

\* the except branch of a handler: 500 with str(e)
Failed(endpoint, request, error, effects, query) ==
    Response(endpoint, request, 500, [error |-> error], effects, <<>>, query)

get_reports_run(args, searchOut, total) ==
    LET ep == "get_reports"
        body == ListingSearchBody(args)
    IN
    IF ~es THEN Unavailable(ep, args)
    ELSE IF ListingArgsRaise(args) THEN
        Failed(ep, args, "ValueError", <<>>, NoQuery)
    ELSE IF searchOut # "ok" THEN
        Failed(ep, args, searchOut, Call("es.search", searchOut), body)
    ELSE IF EffectiveSize(args) = 0 THEN
        Failed(ep, args, "ZeroDivisionError", Call("es.search", searchOut), body)
    ELSE
        Response(ep, args, 200, ListingResult(args, total, SearchHits(body)),
                 Call("es.search", searchOut), <<>>, body)

get_reports(args, searchOut, total) ==
    /\ (~ListingArgsRaise(args) /\ searchOut = "ok") =>
           total \in SearchTotals(ListingSearchBody(args))
    /\ resp' = get_reports_run(args, searchOut, total)
    /\ UNCHANGED <<inflight, es, redis_client, hashseed, cache, store, uuids>>

\* ----------------------------------------------------- aggregation reads
Range(f) == {f[i] : i \in DOMAIN f}

RECURSIVE SortedSeq(_)
SortedSeq(S) ==
    IF S = {} THEN <<>>
    ELSE LET m == CHOOSE x \in S : \A y \in S : x <= y
         IN <<m>> \o SortedSeq(S \ {m})

\* es.cat.indices(index="parsedmarc-aggregate-*"): one row per index
CatIndices ==
    { [index |-> ix,
       docs_count |-> Cardinality({i \in DOMAIN store : store[i].index = ix})]
      : ix \in {d.index : d \in Range(store)} }

\* get_statistics, the shaped result
StatsResult ==
    [total_reports |-> Len(store),
     total_indices |-> Cardinality(CatIndices),
     indices |-> CatIndices]

\* the terms aggregation on org_name.keyword: a bucket per organization
\* name, larger counts first, at most size buckets
OrgCount(o) == Cardinality({i \in DOMAIN store : store[i].org_name = o})

OrgBefore(a, b) ==
    \/ OrgCount(a) > OrgCount(b)
    \/ OrgCount(a) = OrgCount(b) /\ a = "" /\ b # ""

RECURSIVE OrgOrder(_)
OrgOrder(S) ==
    IF S = {} THEN <<>>
    ELSE LET m == CHOOSE x \in S : \A y \in S \ {x} : OrgBefore(x, y)
         IN <<m>> \o OrgOrder(S \ {m})

OrgBuckets(size) ==
    LET all == OrgOrder({d.org_name : d \in Range(store)} \ {None})
    IN [i \in 1..Min(IF size < 0 THEN 0 ELSE size, Len(all)) |->
           [key |-> all[i], doc_count |-> OrgCount(all[i])]]

\* get_top_organizations, the shaped result
TopOrgsResult(buckets) ==
    [organizations |->
        [i \in DOMAIN buckets |->
            [organization |-> buckets[i].key,
             reports |-> buckets[i].doc_count]]]

\* the nested terms aggregation on records.policy_evaluated.disposition
DispositionCount(v) ==
    Cardinality({i \in DOMAIN store : store[i].disposition = v})

DispositionBuckets ==
    LET vals == {d.disposition : d \in Range(store)} \ {None}
    IN IF vals = {} THEN <<>>
       ELSE LET v == CHOOSE x \in vals : TRUE
            IN <<[key |-> v, doc_count |-> DispositionCount(v)]>>

\* get_disposition_stats, the shaped result
DispositionsResult(buckets) ==
    [dispositions |->
        [i \in DOMAIN buckets |->
            [disposition |-> buckets[i].key,
             count |-> buckets[i].doc_count]]]

\* a cache-first handler on a miss whose query succeeded: the result goes
\* to the cache and to the client
Computed(endpoint, request, key, result, effects, setOut, query) ==
    [cache |-> cache_response(key, result, setOut),
     resp |-> Response(endpoint, request, 200, result,
                       effects \o SetEffects(setOut), <<>>, query)]

Kept(response) == [cache |-> cache, resp |-> response]

get_statistics_run(getOut, catOut, sizesParse, setOut) ==
    LET ep == "get_statistics"
        cache_key == get_cache_key("stats", <<>>)
        cached == get_cached_response(cache_key, getOut)
    IN
    IF ~es THEN Kept(Unavailable(ep, <<>>))
    ELSE IF cached.hit THEN
        Kept(Response(ep, <<>>, 200, cached.data, GetEffects(getOut), <<>>, NoQuery))
    ELSE IF catOut # "ok" THEN
        Kept(Failed(ep, <<>>, catOut, GetEffects(getOut) \o Call("es.cat.indices", catOut),
                    NoQuery))
    ELSE IF ~sizesParse THEN
        Kept(Failed(ep, <<>>, "ValueError",
                    GetEffects(getOut) \o Call("es.cat.indices", catOut), NoQuery))
    ELSE Computed(ep, <<>>, cache_key, StatsResult,
                  GetEffects(getOut) \o Call("es.cat.indices", catOut), setOut, NoQuery)

get_statistics(getOut, catOut, sizesParse, setOut) ==
    /\ LET r == get_statistics_run(getOut, catOut, sizesParse, setOut)
       IN resp' = r.resp /\ cache' = r.cache
    /\ UNCHANGED <<inflight, es, redis_client, hashseed, store, uuids>>

\* the body get_top_organizations hands to es.search
TopOrgsSearchBody(size) ==
    [sent |-> TRUE, query |-> MatchAll, size |-> 0, from |-> 0,
     aggs |-> [name |-> "top_organizations", field |-> "org_name.keyword",
               size |-> size]]

get_top_organizations_run(args, getOut, searchOut, setOut) ==
    LET ep == "get_top_organizations"
        cache_key == get_cache_key("top_orgs", args)
        cached == get_cached_response(cache_key, getOut)
        size == int(DictGet(args, "size", DEFAULT_TOP_SIZE))
    IN
    IF ~es THEN Kept(Unavailable(ep, args))
    ELSE IF cached.hit THEN
        Kept(Response(ep, args, 200, cached.data, GetEffects(getOut), <<>>, NoQuery))
    ELSE IF ~IsIntLiteral(DictGet(args, "size", DEFAULT_TOP_SIZE)) THEN
        Kept(Failed(ep, args, "ValueError", GetEffects(getOut), NoQuery))
    ELSE IF searchOut # "ok" THEN
        Kept(Failed(ep, args, searchOut, GetEffects(getOut) \o Call("es.search", searchOut),
                    TopOrgsSearchBody(size)))
    ELSE Computed(ep, args, cache_key, TopOrgsResult(OrgBuckets(size)),
                  GetEffects(getOut) \o Call("es.search", searchOut), setOut,
                  TopOrgsSearchBody(size))

get_top_organizations(args, getOut, searchOut, setOut) ==
    /\ LET r == get_top_organizations_run(args, getOut, searchOut, setOut)
       IN resp' = r.resp /\ cache' = r.cache
    /\ UNCHANGED <<inflight, es, redis_client, hashseed, store, uuids>>

\* the body get_disposition_stats hands to es.search
DispositionsSearchBody ==
    [sent |-> TRUE, query |-> MatchAll, size |-> 0, from |-> 0,
     aggs |-> [name |-> "dispositions",
               field |-> "records.policy_evaluated.disposition.keyword",
               size |-> 10]]

get_disposition_stats_run(getOut, searchOut, setOut) ==
    LET ep == "get_disposition_stats"
        cache_key == get_cache_key("dispositions", <<>>)
        cached == get_cached_response(cache_key, getOut)
    IN
    IF ~es THEN Kept(Unavailable(ep, <<>>))
    ELSE IF cached.hit THEN
        Kept(Response(ep, <<>>, 200, cached.data, GetEffects(getOut), <<>>, NoQuery))
    ELSE IF searchOut # "ok" THEN
        Kept(Failed(ep, <<>>, searchOut, GetEffects(getOut) \o Call("es.search", searchOut),
                    DispositionsSearchBody))
    ELSE Computed(ep, <<>>, cache_key, DispositionsResult(DispositionBuckets),
                  GetEffects(getOut) \o Call("es.search", searchOut), setOut,
                  DispositionsSearchBody)

get_disposition_stats(getOut, searchOut, setOut) ==
    /\ LET r == get_disposition_stats_run(getOut, searchOut, setOut)
       IN resp' = r.resp /\ cache' = r.cache
    /\ UNCHANGED <<inflight, es, redis_client, hashseed, store, uuids>>

\* -------------------------------------------------------------- timeline
\* d[k] = v on a dict: the value is replaced in place, a new key goes last
DictSet(d, k, v) ==
    IF \E i \in DOMAIN d : d[i][1] = k
    THEN [i \in DOMAIN d |-> IF d[i][1] = k THEN <<k, v>> ELSE d[i]]
    ELSE Append(d, <<k, v>>)

\* get_timeline_data, "Build date range": the else branch belongs to
\* "if date_to"
TimelineDateRange(date_from, date_to, now) ==
    LET lower == IF Truthy(date_from)
                 THEN DictSet(<<>>, "gte", date_from) ELSE <<>>
    IN IF Truthy(date_to)
       THEN DictSet(lower, "lte", date_to)
       ELSE DictSet(lower, "gte", isoformat(now - DEFAULT_WINDOW_DAYS))

TimelineQuery(date_range) ==
    IF date_range # <<>>
    THEN BoolFilter(<<RangeClause("@timestamp", date_range)>>)
    ELSE MatchAll

TimelineArgs(interval, date_from, date_to) ==
    Arg("interval", interval) \o Arg("date_from", date_from)
    \o Arg("date_to", date_to)

\* the body get_timeline_data hands to es.search
TimelineSearchBody(args, now) ==
    [sent |-> TRUE,
     query |-> TimelineQuery(
                  TimelineDateRange(DictGet(args, "date_from", None),
                                    DictGet(args, "date_to", None), now)),
     size |-> 0, from |-> 0,
     aggs |-> [name |-> "timeline", field |-> "@timestamp",
               size |-> 0,
               calendar_interval |-> DictGet(args, "interval", "day")]]

\* the date histogram of the matching documents: a bucket per day from the
\* first to the last day that holds one
TimelineBuckets(query) ==
    LET days == {DayOf(d.timestamp) : d \in Range(Matching(store, query))}
        count(day) == Cardinality({i \in DOMAIN store :
                          /\ QueryMatches(store[i], query)
                          /\ DayOf(store[i].timestamp) = day})
        span == IF days = {} THEN {}
                ELSE {x \in Clock : \E a \in days, b \in days :
                                        a <= x /\ x <= b}
        order == SortedSeq(span)
    IN [i \in DOMAIN order |->
           [key_as_string |-> order[i], doc_count |-> count(order[i])]]

TimelineResult(buckets) ==
    [timeline |->
        [i \in DOMAIN buckets |->
            [date |-> buckets[i].key_as_string,
             count |-> buckets[i].doc_count]]]

get_timeline_data_run(args, now, searchOut) ==
    LET ep == "get_timeline_data"
        body == TimelineSearchBody(args, now)
    IN
    IF ~es THEN Unavailable(ep, args)
    ELSE IF searchOut # "ok" THEN
        Failed(ep, args, searchOut, Call("es.search", searchOut), body)
    ELSE Response(ep, args, 200, TimelineResult(TimelineBuckets(body.query)),
                  Call("es.search", searchOut), <<>>, body)

get_timeline_data(args, now, searchOut) ==
    /\ resp' = get_timeline_data_run(args, now, searchOut)
    /\ UNCHANGED <<inflight, es, redis_client, hashseed, cache, store, uuids>>

\* ------------------------------------------------------ passthrough search
\* a body posted to /api/search: no bytes, bytes that are not JSON, JSON
\* null, {}, an object without a 'query' key, an object with one
SearchBodies ==
    { [kind |-> k] : k \in {"empty", "malformed", "null", "emptyobj",
                            "noquery", "query"} }

\* request.get_json() (not silent) raises BadRequest for bytes that do not
\* parse, the empty body included
GetJsonRaises(body) == body.kind \in {"empty", "malformed"}

\* "not search_data or 'query' not in search_data"
QueryMissing(body) == body.kind \in {"null", "emptyobj", "noquery"}

\* the posted query is handed to es.search as it is; the model's query
\* matches every document
PassthroughSearchBody == [sent |-> TRUE, query |-> MatchAll]

search_reports_run(body, searchOut) ==
    LET ep == "search_reports" IN
    IF ~es THEN Unavailable(ep, body)
    ELSE IF GetJsonRaises(body) THEN
        Failed(ep, body, "BadRequest", <<>>, NoQuery)
    ELSE IF QueryMissing(body) THEN
        Response(ep, body, 400, [error |-> "Query required"],
                 <<>>, <<>>, NoQuery)
    ELSE IF searchOut # "ok" THEN
        Failed(ep, body, searchOut, Call("es.search", searchOut),
               PassthroughSearchBody)
    ELSE Response(ep, body, 200, [hits |-> store],
                  Call("es.search", searchOut), <<>>, PassthroughSearchBody)

search_reports(body, searchOut) ==
    /\ resp' = search_reports_run(body, searchOut)
    /\ UNCHANGED <<inflight, es, redis_client, hashseed, cache, store, uuids>>

\* ---------------------------------------------------------- health check
\* the cluster status es.cluster.health() returns
ClusterStatuses == {"green", "yellow", "red"}

\* str(e) of the exception an external call raised
ErrorText(out) == <<"str", out>>

\* status['services']['elasticsearch'] (app.py:104-114)
EsHealthEntry(healthOut, clusterStatus) ==
    IF ~es
    THEN << <<"status", "error">>, <<"connected", FALSE>> >>
    ELSE IF healthOut # "ok"
    THEN << <<"status", "error">>, <<"error", ErrorText(healthOut)>> >>
    ELSE << <<"status", clusterStatus>>, <<"connected", TRUE>> >>

\* status['services']['redis'] (app.py:117-127); redis_client.ping()
\* returns True or raises
RedisHealthEntry(pingOut) ==
    IF ~redis_client
    THEN << <<"status", "error">>, <<"connected", FALSE>> >>
    ELSE IF pingOut # "ok"
    THEN << <<"status", "error">>, <<"error", ErrorText(pingOut)>> >>
    ELSE << <<"status", "healthy">>, <<"connected", TRUE>> >>

HealthEffects(healthOut, pingOut) ==
    (IF es THEN Call("es.cluster.health", healthOut) ELSE <<>>)
    \o (IF redis_client THEN Call("redis.ping", pingOut) ELSE <<>>)

health_check(now, healthOut, clusterStatus, pingOut) ==
    /\ resp' = Response("health_check", <<>>, 200,
                        [status |-> "healthy",
                         timestamp |-> isoformat(now),
                         services |->
                            [elasticsearch |->
                                 EsHealthEntry(healthOut, clusterStatus),
                             redis |-> RedisHealthEntry(pingOut)]],
                        HealthEffects(healthOut, pingOut), <<>>, NoQuery)
    /\ UNCHANGED <<inflight, es, redis_client, hashseed, cache, store, uuids>>

\* ---------------------------------------------------------- environment
\* resp when the last step was no request
NoResponse ==
    Response("none", <<>>, 0, [error |-> None], <<>>, <<>>, NoQuery)

\* a cached entry reaches its TTL (setex) and the store drops it; no
\* request is answered in this step
CacheExpire(key) ==
    /\ key \in DOMAIN cache
    /\ cache' = [k \in DOMAIN cache \ {key} |-> cache[k]]
    /\ resp' = NoResponse
    /\ UNCHANGED <<inflight, es, redis_client, hashseed, store, uuids>>

\* ------------------------------------------------------ request workers
\* The server handles each request on a worker of its own; a handler can
\* be overtaken between two of its calls on the engine or the cache.
\* inflight[w] is the position of worker w inside its handler: pc names
\* the next call, result holds the handler's local variables.
Workers == 1..MaxWorkers

Idle ==
    [pc |-> "idle", endpoint |-> "none", key |-> <<>>,
     result |-> [none |-> TRUE], keys |-> {}]

\* --------------------------------------------------------- specification

\* init_connections leaves each handle set or None; the process has one
\* hash seed; the cache and the index start empty
Init ==
    /\ es \in BOOLEAN
    /\ redis_client \in BOOLEAN
    /\ hashseed \in Seeds
    /\ cache = EmptyCache
    /\ store = <<>>
    /\ uuids = 0
    /\ resp = NoResponse
    /\ inflight = [w \in Workers |-> Idle]

\* A handler stops at the first call that raises, so the outcomes drawn
\* for the calls after it are fixed to "ok": each run is drawn once
Scripted(outs) ==
    \A i, j \in DOMAIN outs : i < j /\ outs[i] # "ok" => outs[j] = "ok"

\* the requests of the service specification
ServiceClock == {1}

ServiceTopArgs == { <<>>, << <<"size", "5">> >>, << <<"size", "abc">> >> }

ServiceListingArgs ==
    { ListingArgs(None, None, None, None, None, None, None),
      ListingArgs("0", "10", "X", None, None, None, None) }

ServiceTimelineArgs ==
    { TimelineArgs(None, None, None),
      TimelineArgs(None, "2000-01-01T00:00:00", None) }

Ingest ==
    \E body \in ServiceBodies, now \in ServiceClock, idx \in EsOutcomes,
       keysOut \in CallOutcomes, delOut \in CallOutcomes,
       emitOut \in CallOutcomes :
        /\ uuids < MaxIngest
        /\ Scripted(<<idx, keysOut, delOut, emitOut>>)
        /\ process_report(body, now, idx, keysOut, delOut, emitOut)

Stats ==
    \E getOut \in CallOutcomes, catOut \in EsOutcomes,
       sizesParse \in BOOLEAN, setOut \in CallOutcomes :
        /\ Scripted(<<catOut, IF sizesParse THEN "ok" ELSE "raise", setOut>>)
        /\ get_statistics(getOut, catOut, sizesParse, setOut)

TopOrganizations ==
    \E args \in ServiceTopArgs, getOut \in CallOutcomes,
       searchOut \in EsOutcomes, setOut \in CallOutcomes :
        /\ Scripted(<<searchOut, setOut>>)
        /\ get_top_organizations(args, getOut, searchOut, setOut)

Dispositions ==
    \E getOut \in CallOutcomes, searchOut \in EsOutcomes,
       setOut \in CallOutcomes :
        /\ Scripted(<<searchOut, setOut>>)
        /\ get_disposition_stats(getOut, searchOut, setOut)

Listing ==
    \E args \in ServiceListingArgs, searchOut \in EsOutcomes,
       total \in 0..MaxTotal :
        /\ searchOut # "ok" => total = 0
        /\ get_reports(args, searchOut, total)

Timeline ==
    \E args \in ServiceTimelineArgs, now \in ServiceClock,
       searchOut \in EsOutcomes :
        get_timeline_data(args, now, searchOut)

Expire == \E key \in DOMAIN cache : CacheExpire(key)

Next ==
    \/ Ingest
    \/ Stats
    \/ TopOrganizations
    \/ Dispositions
    \/ Listing
    \/ Timeline
    \/ Expire

Spec == Init /\ [][Next]_vars

\* ------------------------------------------- specification: cache keys
\* request.args.to_dict() of top-organizations requests: the parameters in
\* the order of the query string
KeyItems == { <<"size", "5">>, <<"size", "10">>, <<"page", "2">> }

KeyParams ==
    { <<>> } \cup { <<a>> : a \in KeyItems }
    \cup { p \in KeyItems \X KeyItems : p[1][1] # p[2][1] }

\* get_cache_key applied to the parameters of two requests of one endpoint
CacheKeys(endpoint, first, second) ==
    /\ resp' = Response("get_cache_key", <<first, second>>, 0,
                        [first |-> get_cache_key(endpoint, first),
                         second |-> get_cache_key(endpoint, second)],
                        <<>>, <<>>, NoQuery)
    /\ UNCHANGED <<inflight, es, redis_client, hashseed, cache, store, uuids>>

NextKey ==
    \E endpoint \in {"top_orgs"}, first \in KeyParams, second \in KeyParams :
        CacheKeys(endpoint, first, second)

SpecKey == Init /\ [][NextKey]_vars

\* ---------------------------------------------- specification: listing
\* the values a listing request gives its parameters (None: not given)
FilterValues(value) == {None, "", value}

PageValues == {None, "-1", "0", "1", "3", "abc"}

SizeValues == {None, "-1", "0", "1", "2", "10", "20", "150", "abc"}

\* the search outcome and total drawn once per run
SearchRuns ==
    { <<out, total>> \in EsOutcomes \X (0..MaxTotal) :
          out # "ok" => total = 0 }

FilteredListing ==
    \E org_name \in FilterValues("X"), domain \in {None, "y.com"},
       disposition \in {None, "reject"},
       date_from \in FilterValues("2000-01-01T00:00:00"),
       date_to \in FilterValues("2000-01-02T00:00:00"),
       searchOut \in EsOutcomes :
        get_reports(ListingArgs(None, None, org_name, domain, disposition,
                                date_from, date_to), searchOut, 0)

PagedListing ==
    \E page \in PageValues, size \in SizeValues, run \in SearchRuns :
        get_reports(ListingArgs(page, size, None, None, None, None, None),
                    run[1], run[2])

NextListing == FilteredListing \/ PagedListing

SpecListing == Init /\ [][NextListing]_vars

\* --------------------------------------------- specification: timeline
NextTimeline ==
    \E interval \in {None, "week"},
       date_from \in FilterValues("2000-01-01T00:00:00"),
       date_to \in FilterValues("2000-01-02T00:00:00"),
       now \in Clock, searchOut \in EsOutcomes :
        get_timeline_data(TimelineArgs(interval, date_from, date_to),
                          now, searchOut)

SpecTimeline == Init /\ [][NextTimeline]_vars

\* ------------------------------------- specification: concurrent requests
\* The three cached reads and the ingest, one step per external call, with
\* every call succeeding: what the requests do to each other comes from
\* the order of their calls alone.
ReadEndpoints ==
    {"get_statistics", "get_top_organizations", "get_disposition_stats"}

\* cache_key of a read without parameters
ReadKey(ep) ==
    IF ep = "get_statistics" THEN get_cache_key("stats", <<>>)
    ELSE IF ep = "get_top_organizations" THEN get_cache_key("top_orgs", <<>>)
    ELSE get_cache_key("dispositions", <<>>)

\* what the handler's query gives on the documents the engine holds
ReadResult(ep) ==
    IF ep = "get_statistics" THEN StatsResult
    ELSE IF ep = "get_top_organizations"
    THEN TopOrgsResult(OrgBuckets(int(DEFAULT_TOP_SIZE)))
    ELSE DispositionsResult(DispositionBuckets)

ReadQueryBody(ep) ==
    IF ep = "get_statistics" THEN NoQuery
    ELSE IF ep = "get_top_organizations"
    THEN TopOrgsSearchBody(int(DEFAULT_TOP_SIZE))
    ELSE DispositionsSearchBody

\* "if not es", then get_cached_response: a hit is answered at once, a
\* miss goes on to the query
ReadLookup(w, ep) ==
    LET cached == get_cached_response(ReadKey(ep), "ok") IN
    /\ inflight[w].pc = "idle"
    /\ IF ~es THEN
           resp' = Unavailable(ep, <<>>) /\ UNCHANGED inflight
       ELSE IF cached.hit THEN
           /\ resp' = Response(ep, <<>>, 200, cached.data, GetEffects("ok"),
                               <<>>, NoQuery)
           /\ UNCHANGED inflight
       ELSE
           /\ resp' = NoResponse
           /\ inflight' = [inflight EXCEPT ![w] =
                   [pc |-> "query", endpoint |-> ep, key |-> ReadKey(ep),
                    result |-> Idle.result, keys |-> {}]]
    /\ UNCHANGED <<es, redis_client, hashseed, cache, store, uuids>>

\* the query on the engine and the shaping of its answer
ReadQuery(w) ==
    /\ inflight[w].pc = "query"
    /\ inflight' = [inflight EXCEPT
                       ![w].pc = "cache",
                       ![w].result = ReadResult(inflight[w].endpoint)]
    /\ resp' = NoResponse
    /\ UNCHANGED <<es, redis_client, hashseed, cache, store, uuids>>

\* cache_response(cache_key, result) and the answer
ReadCache(w) ==
    LET ep == inflight[w].endpoint IN
    /\ inflight[w].pc = "cache"
    /\ cache' = cache_response(inflight[w].key, inflight[w].result, "ok")
    /\ resp' = Response(ep, <<>>, 200, inflight[w].result,
                        GetEffects("ok")
                            \o Call(IF ep = "get_statistics"
                                    THEN "es.cat.indices" ELSE "es.search",
                                    "ok")
                            \o SetEffects("ok"),
                        <<>>, ReadQueryBody(ep))
    /\ inflight' = [inflight EXCEPT ![w] = Idle]
    /\ UNCHANGED <<es, redis_client, hashseed, store, uuids>>

\* the report the concurrent ingests post
RaceBodies ==
    { ObjectBody("X", [t |-> "object", domain |-> "y.com"], "reject") }

\* process_report up to es.index: validation, stamping, the write
WriteIndex(w, body, now) ==
    LET doc == Stamped(body, now) @@ [id |-> IndexResult(now).id,
                                      index |-> IndexResult(now).index]
    IN
    /\ inflight[w].pc = "idle"
    /\ uuids < MaxReports
    /\ IF ~es THEN
           /\ resp' = Unavailable("process_report", body)
           /\ UNCHANGED <<inflight, store, uuids>>
       ELSE
           /\ store' = Append(store, doc)
           /\ uuids' = uuids + 1
           /\ resp' = NoResponse
           /\ inflight' = [inflight EXCEPT ![w] =
                   [pc |-> "keys", endpoint |-> "process_report",
                    key |-> <<>>,
                    result |-> [body |-> body,
                                json |-> [success |-> TRUE,
                                          id |-> IndexResult(now).id,
                                          index |-> IndexResult(now).index],
                                event |-> NewReportEvent(body, now)],
                    keys |-> {}]]
    /\ UNCHANGED <<es, redis_client, hashseed, cache>>

\* keys = redis_client.keys("api:*")
WriteKeys(w) ==
    /\ inflight[w].pc = "keys"
    /\ inflight' = [inflight EXCEPT
                       ![w].pc = "delete",
                       ![w].keys = IF redis_client THEN NamespaceKeys ELSE {}]
    /\ resp' = NoResponse
    /\ UNCHANGED <<es, redis_client, hashseed, cache, store, uuids>>

\* redis_client.delete(*keys), the live update and the answer
WriteDelete(w) ==
    LET keys == inflight[w].keys
        locals == inflight[w].result
    IN
    /\ inflight[w].pc = "delete"
    /\ cache' = [k \in DOMAIN cache \ keys |-> cache[k]]
    /\ resp' = Response("process_report", locals.body, 200, locals.json,
                        Call("es.index", "ok")
                            \o (IF ~redis_client THEN <<>>
                                ELSE IF keys = {} THEN Call("redis.keys", "ok")
                                ELSE Call("redis.keys", "ok")
                                     \o Call("redis.delete", "ok"))
                            \o Call("socketio.emit", "ok"),
                        emit_live_update(locals.event, "ok"), NoQuery)
    /\ inflight' = [inflight EXCEPT ![w] = Idle]
    /\ UNCHANGED <<es, redis_client, hashseed, store, uuids>>

ConcurrentRead ==
    \E w \in Workers :
        \/ \E ep \in ReadEndpoints : ReadLookup(w, ep)
        \/ ReadQuery(w)
        \/ ReadCache(w)

ConcurrentIngest ==
    \E w \in Workers :
        \/ \E body \in RaceBodies, now \in ServiceClock :
               WriteIndex(w, body, now)
        \/ WriteKeys(w)
        \/ WriteDelete(w)

NextConcurrent == ConcurrentRead \/ ConcurrentIngest

SpecConcurrent == Init /\ [][NextConcurrent]_vars

\* ----------------------------------------------- specification: health
\* the health requests: each outcome of the two probes; an outcome is
\* drawn only for a probe that is made
HealthClock == Clock \cup {3}

NextHealth ==
    \E now \in HealthClock, healthOut \in EsOutcomes,
       clusterStatus \in ClusterStatuses, pingOut \in CallOutcomes :
        /\ ~es => healthOut = "ok"
        /\ healthOut # "ok" => clusterStatus = "green"
        /\ ~redis_client => pingOut = "ok"
        /\ health_check(now, healthOut, clusterStatus, pingOut)

SpecHealth == Init /\ [][NextHealth]_vars

\* ----------------------------------------------- specification: ingest
\* the bodies the ingest specification posts: every kind of body that is
\* not an object, and objects with each org_name and each policy_published
IngestBodies ==
    { b \in Bodies :
        b.kind = "object" =>
            /\ b.org_name # "X" =>
                   b.policy_published.t = "absent" /\ b.disposition = None
            /\ b.disposition # None => b.policy_published.domain # None }

\* a report is posted; the dispositions are read in between so that the
\* cache has entries to flush
PostReport ==
    \E body \in IngestBodies, now \in ServiceClock, idx \in EsOutcomes,
       keysOut \in CallOutcomes, delOut \in CallOutcomes,
       emitOut \in CallOutcomes :
        /\ uuids < MaxReports
        /\ Scripted(<<idx, keysOut, delOut, emitOut>>)
        /\ process_report(body, now, idx, keysOut, delOut, emitOut)

NextIngest == PostReport \/ Dispositions

SpecIngest == Init /\ [][NextIngest]_vars

\* ------------------------------------------- specification: JSON bodies
\* the two endpoints that read a JSON body
SearchReports ==
    \E body \in SearchBodies, searchOut \in EsOutcomes :
        search_reports(body, searchOut)

NextJson == PostReport \/ SearchReports

SpecJson == Init /\ [][NextJson]_vars

\* ================================================================ claims
\* what a response record says about the calls of its request
CallsOf(r) == {r.effects[i][1] : i \in DOMAIN r.effects}

OutcomeOf(r, name) ==
    r.effects[CHOOSE i \in DOMAIN r.effects : r.effects[i][1] = name][2]

Called(r, name) == name \in CallsOf(r)

Succeeded(r, name) == Called(r, name) /\ OutcomeOf(r, name) = "ok"

Failing(r, name) == Called(r, name) /\ OutcomeOf(r, name) # "ok"

PositionOf(r, name) ==
    CHOOSE i \in DOMAIN r.effects : r.effects[i][1] = name

\* C1: an ingest request whose search-engine write fails answers 500, and
\* in that request no cache key is looked up or deleted and no live-update
\* event is emitted.
C1_FailedWriteHasNoSideEffects ==
    (resp.endpoint = "process_report" /\ Failing(resp, "es.index")) =>
        /\ resp.status = 500
        /\ ~Called(resp, "redis.keys")
        /\ ~Called(resp, "redis.delete")
        /\ ~Called(resp, "socketio.emit")
        /\ resp.events = <<>>

\* C1 witness: a write failed while the cache held entries, which are
\* still there
C1_Witness ==
    /\ resp.endpoint = "process_report"
    /\ Failing(resp, "es.index")
    /\ resp.status = 500
    /\ DOMAIN cache # {}

CountOf(r, name) ==
    Cardinality({i \in DOMAIN r.effects : r.effects[i][1] = name})

\* the new_report event of the ingest request r answered: the storage id
\* of the response, the posted organization name and domain, the stamp
ExpectedEvent(r, e) ==
    /\ e.event = "live_update"
    /\ e.type = "new_report"
    /\ e.data.id = r.json.id
    /\ e.data.org_name = r.request.org_name
    /\ e.data.domain = r.request.policy_published.domain
    /\ \E i \in DOMAIN store :
          store[i].id = r.json.id /\ store[i].timestamp = e.data.timestamp

\* C2: every ingest request whose search-engine write succeeds deletes
\* every key of the "api:" namespace, then emits exactly one new_report
\* event carrying the storage id, the organization name, the domain (null
\* when there is none) and the stamped timestamp, and answers 200 with
\* {success, id, index}.  (An emit the transport refuses still counts as
\* emitted.)
C2_SuccessfulWriteFlushesThenEmits ==
    (resp.endpoint = "process_report" /\ Succeeded(resp, "es.index")) =>
        /\ resp.status = 200
        /\ resp.json.success
        /\ resp.json.id = store[Len(store)].id
        /\ resp.json.index = store[Len(store)].index
        /\ NamespaceKeys = {}
        /\ CountOf(resp, "socketio.emit") = 1
        /\ redis_client =>
              /\ Called(resp, "redis.keys")
              /\ PositionOf(resp, "redis.keys")
                     < PositionOf(resp, "socketio.emit")
        /\ Succeeded(resp, "socketio.emit") =>
              /\ Len(resp.events) = 1
              /\ ExpectedEvent(resp, resp.events[1])

\* C3: a cache call that raises never shows to the caller.  A read whose
\* cache lookup or cache write raised goes on as on a miss and answers what
\* the query gives; an ingest whose namespace flush raised answers as it
\* does with no cache, 200 unless the domain lookup raises.
C3_CacheFailureIsSilent ==
    /\ (/\ resp.endpoint \in {"get_statistics", "get_top_organizations",
                              "get_disposition_stats"}
        /\ Failing(resp, "redis.get") \/ Failing(resp, "redis.setex")) =>
           /\ Failing(resp, "redis.get") =>
                 Called(resp, "es.search") \/ Called(resp, "es.cat.indices")
           /\ Failing(resp, "redis.setex") => resp.status = 200
    /\ (/\ resp.endpoint = "process_report"
        /\ Failing(resp, "redis.keys") \/ Failing(resp, "redis.delete")
        /\ ~DomainLookupRaises(resp.request)) =>
           /\ resp.status = 200
           /\ resp.json.success

\* the cache key a cache-first handler derives for the request of r
KeyOf(r) ==
    IF r.endpoint = "get_top_organizations"
    THEN get_cache_key("top_orgs", r.request)
    ELSE IF r.endpoint = "get_disposition_stats"
    THEN get_cache_key("dispositions", <<>>)
    ELSE get_cache_key("stats", <<>>)

\* what the query of r's handler gives on the documents stored
FreshResult(r) ==
    IF r.endpoint = "get_top_organizations"
    THEN TopOrgsResult(OrgBuckets(int(DictGet(r.request, "size",
                                              DEFAULT_TOP_SIZE))))
    ELSE DispositionsResult(DispositionBuckets)

RedisCalls == {"redis.get", "redis.setex", "redis.keys", "redis.delete"}

\* the step answered a top-organizations or disposition request cache
\* first: a hit returns the cached payload and asks the engine nothing; a
\* miss queries the engine (a size that is no integer answers 500 before
\* that) and a successful query is cached under the key and returned
CacheFirstStep ==
    (resp'.endpoint \in {"get_top_organizations", "get_disposition_stats"}
     /\ es) =>
        LET key == KeyOf(resp') IN
        IF redis_client /\ Succeeded(resp', "redis.get") /\ key \in DOMAIN cache
        THEN /\ resp'.status = 200
             /\ resp'.json = cache[key]
             /\ ~Called(resp', "es.search")
             /\ ~Called(resp', "redis.setex")
             /\ cache' = cache
        ELSE /\ \/ Called(resp', "es.search")
                \/ /\ resp'.status = 500
                   /\ resp'.json = [error |-> "ValueError"]
             /\ Succeeded(resp', "es.search") =>
                   /\ resp'.status = 200
                   /\ resp'.json = FreshResult(resp')
                   /\ redis_client => Called(resp', "redis.setex")
                   /\ Succeeded(resp', "redis.setex") =>
                         /\ key \in DOMAIN cache'
                         /\ cache'[key] = resp'.json
                         /\ \A k \in DOMAIN cache' \ {key} :
                               k \in DOMAIN cache /\ cache'[k] = cache[k]
             /\ ~Succeeded(resp', "redis.setex") => cache' = cache

\* the step answered a listing or timeline request without the cache: no
\* cache call, the cache unchanged, the engine queried whenever the
\* parameters parse
UncachedStep ==
    (resp'.endpoint \in {"get_reports", "get_timeline_data"} /\ es) =>
        /\ CallsOf(resp') \cap RedisCalls = {}
        /\ cache' = cache
        /\ \/ Called(resp', "es.search")
           \/ /\ resp'.status = 500
              /\ resp'.json = [error |-> "ValueError"]

C5_CacheKeyIgnoresInsertionOrder ==
    resp.endpoint = "get_cache_key" =>
        LET first == resp.request[1]
            second == resp.request[2]
        IN /\ Range(first) = Range(second) =>
                  resp.json.first = resp.json.second
           /\ Range(first) # Range(second) =>
                  resp.json.first # resp.json.second

\* the clauses of a built query that test the given field
ClausesOn(query, field) ==
    {i \in DOMAIN query.filter : query.filter[i].field = field}

\* the query holds exactly one clause on the field, of the given kind and
\* value, when the filter is given a value, and none when it is not
OneClauseIfGiven(query, field, kind, path, value) ==
    IF Truthy(value)
    THEN /\ Cardinality(ClausesOn(query, field)) = 1
         /\ \A i \in ClausesOn(query, field) :
               /\ query.filter[i].kind = kind
               /\ query.filter[i].path = path
               /\ query.filter[i].value = value
    ELSE ClausesOn(query, field) = {}

\* the query holds exactly one range clause with exactly the bounds given
\* when a bound is given, and none when none is
OneRangeIfGiven(query, date_from, date_to) ==
    IF Truthy(date_from) \/ Truthy(date_to)
    THEN /\ Cardinality(ClausesOn(query, "@timestamp")) = 1
         /\ \A i \in ClausesOn(query, "@timestamp") :
               /\ query.filter[i].kind = "range"
               /\ Range(query.filter[i].bounds)
                    = (IF Truthy(date_from)
                       THEN {<<"gte", date_from>>} ELSE {})
                      \cup (IF Truthy(date_to)
                            THEN {<<"lte", date_to>>} ELSE {})
               /\ Len(query.filter[i].bounds)
                    = Cardinality(Range(query.filter[i].bounds))
    ELSE ClausesOn(query, "@timestamp") = {}

GivenFilters(args) ==
    Cardinality({name \in {"org_name", "domain", "disposition"} :
                     Truthy(DictGet(args, name, None))})
    + (IF Truthy(DictGet(args, "date_from", None))
          \/ Truthy(DictGet(args, "date_to", None)) THEN 1 ELSE 0)

\* C6: the query the listing handler sends is match-all when no filter is
\* given a value, and otherwise a boolean conjunction with exactly one
\* clause per given filter and none for the others; a date range with one
\* or two bounds is one range clause holding only the bounds given.  (A
\* parameter given the empty string counts as not given.)
C6_ListingQueryHasOneClausePerFilter ==
    (resp.endpoint = "get_reports" /\ resp.query.sent) =>
        LET args == resp.request
            query == resp.query.query
        IN /\ GivenFilters(args) = 0 => query = MatchAll
           /\ GivenFilters(args) > 0 =>
                 /\ query.kind = "bool"
                 /\ Len(query.filter) = GivenFilters(args)
           /\ OneClauseIfGiven(query, "org_name.keyword", "term", None,
                               DictGet(args, "org_name", None))
           /\ OneClauseIfGiven(query, "policy_published.domain.keyword",
                               "term", None, DictGet(args, "domain", None))
           /\ OneClauseIfGiven(query,
                  "records.policy_evaluated.disposition.keyword", "nested",
                  "records", DictGet(args, "disposition", None))
           /\ OneRangeIfGiven(query, DictGet(args, "date_from", None),
                              DictGet(args, "date_to", None))

\* C6 witness: a listing with a domain filter and a lower date bound only
\* sent a conjunction of two clauses
C6_Witness ==
    /\ resp.endpoint = "get_reports"
    /\ resp.status = 200
    /\ Truthy(DictGet(resp.request, "domain", None))
    /\ Truthy(DictGet(resp.request, "date_from", None))
    /\ ~Truthy(DictGet(resp.request, "date_to", None))
    /\ ~Truthy(DictGet(resp.request, "org_name", None))
    /\ ~Truthy(DictGet(resp.request, "disposition", None))
    /\ resp.query.query.kind = "bool"
    /\ Len(resp.query.query.filter) = 2

\* the bounds of the range clause a timeline request sent
TimelineBounds(r) == Range(r.query.query.filter[1].bounds)

BoundNames(r) == {b[1] : b \in TimelineBounds(r)}

\* the lower bounds the 30-day default window can take
DefaultLowerBounds == {isoformat(now - DEFAULT_WINDOW_DAYS) : now \in Clock}

UsesDefaultWindow(r) ==
    \E b \in TimelineBounds(r) : b[1] = "gte" /\ b[2] \in DefaultLowerBounds

\* C7: on the timeline endpoint the range is open on the side whose bound
\* is not given: with date_from only, the lower bound is date_from and
\* there is no upper bound; with date_to only, the upper bound is date_to
\* and there is no lower bound; the 30-day default window is applied only
\* when neither bound is given.
C7_TimelineRangeIsOpenEnded ==
    (resp.endpoint = "get_timeline_data" /\ resp.query.sent) =>
        LET date_from == DictGet(resp.request, "date_from", None)
            date_to == DictGet(resp.request, "date_to", None)
        IN /\ (Truthy(date_from) /\ ~Truthy(date_to)) =>
                  TimelineBounds(resp) = {<<"gte", date_from>>}
           /\ (~Truthy(date_from) /\ Truthy(date_to)) =>
                  TimelineBounds(resp) = {<<"lte", date_to>>}
           /\ UsesDefaultWindow(resp) =>
                  ~Truthy(date_from) /\ ~Truthy(date_to)

\* the effective size of a listing request, from its parameters
RequestedSize(args) == int(DictGet(args, "size", "20"))

RequestedPage(args) == int(DictGet(args, "page", "1"))

ClampedSize(args) ==
    IF RequestedSize(args) > MAX_PAGE_SIZE
    THEN MAX_PAGE_SIZE ELSE RequestedSize(args)

\* C8: for every integer page and size of a listing request, the offset
\* sent to the search engine is (page-1)*size with the effective size, is
\* never below zero, and the effective size never exceeds the maximum
\* page size.
C8_OffsetIsNeverNegative ==
    (resp.endpoint = "get_reports" /\ resp.query.sent) =>
        /\ resp.query.size = ClampedSize(resp.request)
        /\ resp.query.size <= MAX_PAGE_SIZE
        /\ resp.query.from
             = (RequestedPage(resp.request) - 1) * ClampedSize(resp.request)
        /\ resp.query.from >= 0

\* n = ceil(total / size) for an integer size other than zero
IsCeiling(n, total, size) ==
    IF size > 0
    THEN n * size >= total /\ (n - 1) * size < total
    ELSE n * size <= total /\ (n - 1) * size > total

\* C9: a successful listing response reports pages = ceil(total/size) for
\* the total the search engine returned and the effective size, with the
\* requested page and the effective size.
C9_PagesIsCeilingOfTotalOverSize ==
    (resp.endpoint = "get_reports" /\ resp.status = 200) =>
        /\ resp.json.page = RequestedPage(resp.request)
        /\ resp.json.size = ClampedSize(resp.request)
        /\ IsCeiling(resp.json.pages, resp.json.total, resp.json.size)

\* the handlers other than the health check
Handlers ==
    {"get_statistics", "get_reports", "get_top_organizations",
     "get_disposition_stats", "get_timeline_data", "process_report"}

EngineCalls == {"es.index", "es.search", "es.cat.indices"}

\* a call of the request found the engine unreachable
EngineUnreachable(r) ==
    \E i \in DOMAIN r.effects :
        r.effects[i][1] \in EngineCalls /\ r.effects[i][2] = "ConnectionError"

\* C10: whenever the search engine is unreachable (no client handle, or a
\* call that cannot reach it), every handler other than the health check
\* answers 503 with an error body.
C10_UnreachableEngineAnswers503 ==
    (resp.endpoint \in Handlers /\ (~es \/ EngineUnreachable(resp))) =>
        /\ resp.status = 503
        /\ resp.json = [error |-> "Elasticsearch not available"]

\* ---------------------------------------------------------------- C11
\* the bodies the validation names: no bytes or blanks only (empty),
\* bytes that are not JSON, and the empty object
RejectedKinds == {"empty", "blank", "malformed", "emptyobj"}

\* a step that answers an ingest request while the engine handle is set
AnswersIngest == es /\ resp'.endpoint = "process_report"

NoWriteStep ==
    /\ store' = store
    /\ cache' = cache
    /\ resp'.effects = <<>>
    /\ resp'.events = <<>>

InvalidIngestStep ==
    AnswersIngest =>
        /\ resp'.request.kind \in RejectedKinds =>
               resp'.status = 400 /\ NoWriteStep
        /\ resp'.request.kind # "object" => NoWriteStep

\* C11: with the search-engine handle present, an ingest request whose
\* body is empty, is not parseable as JSON or parses to an empty object is
\* answered 400, and that request makes no call on the search engine, the
\* cache or the socket and leaves the index and the cache as they were;
\* every body that is not a non-empty JSON object is answered without a
\* write.
C11_InvalidBodyIsRejectedWithoutWrite == [][InvalidIngestStep]_vars

\* an empty object was rejected while the index held a report and the
\* cache held an entry
C11_Witness ==
    /\ es
    /\ resp.endpoint = "process_report"
    /\ resp.request.kind = "emptyobj"
    /\ resp.status = 400
    /\ resp.effects = <<>>
    /\ Len(store) > 0
    /\ DOMAIN cache # {}

\* ---------------------------------------------------------------- C12
HasKey(d, k) == \E i \in DOMAIN d : d[i][1] = k

\* the entry reports connected = value
ReportsConnected(entry, value) ==
    HasKey(entry, "connected") /\ DictGet(entry, "connected", ~value) = value

\* the dependency answered its probe in the request of resp
Answered(handle, probe) == handle /\ Succeeded(resp, probe)

\* C12: the health check always answers 200, and for each dependency
\* services.<dependency>.connected is true when the dependency answered
\* its probe and false when its handle is absent or its probe raised,
\* whatever the state of the other dependency.
C12_HealthReportsEachDependency ==
    resp.endpoint = "health_check" =>
        /\ resp.status = 200
        /\ ReportsConnected(resp.json.services.elasticsearch,
                            Answered(es, "es.cluster.health"))
        /\ ReportsConnected(resp.json.services.redis,
                            Answered(redis_client, "redis.ping"))

\* ---------------------------------------------------------------- C13
JsonEndpoints == {"process_report", "search_reports"}

MalformedJsonAnswer == [error |-> "Invalid or malformed JSON"]

\* C13: with the search-engine handle present, a malformed JSON body sent
\* to the ingest or the search endpoint is answered 400 with the body
\* {error: "Invalid or malformed JSON"}, and a search request whose JSON
\* has no 'query' field is answered 400.
C13_MalformedJsonAnswers400 ==
    (es /\ resp.endpoint \in JsonEndpoints) =>
        /\ resp.request.kind = "malformed" =>
               resp.status = 400 /\ resp.json = MalformedJsonAnswer
        /\ (resp.endpoint = "search_reports"
            /\ resp.request.kind \in {"emptyobj", "noquery"}) =>
               resp.status = 400

\* ---------------------------------------------------------------- C14
HasOrganization(doc) == doc.org_name # None /\ doc.org_name # ""

ServerStamped(doc) ==
    /\ doc.timestamp \in {isoformat(now) : now \in Clock}
    /\ doc.processed_by = "dmarc-api"

UniqueProcessingId(i) ==
    \A j \in DOMAIN store :
        j # i => store[j].processing_id # store[i].processing_id

\* C14: after any sequence of ingest requests, every stored report has a
\* non-empty organization name, a server-stamped timestamp and a
\* processing identifier that no other stored report has.
C14_StoredReportsAreWellFormed ==
    \A i \in DOMAIN store :
        /\ HasOrganization(store[i])
        /\ ServerStamped(store[i])
        /\ UniqueProcessingId(i)

\* ---------------------------------------------------------------- C15
\* an ingest has written its report and has not flushed the cache yet
IngestMidFlight == \E w \in Workers : inflight[w].pc \in {"keys", "delete"}

\* what the read cached under key gives on the documents stored now
FreshFor(key) ==
    IF key[2] = "stats" THEN ReadResult("get_statistics")
    ELSE IF key[2] = "top_orgs" THEN ReadResult("get_top_organizations")
    ELSE ReadResult("get_disposition_stats")

\* C15: under any interleaving of cached reads with ingests, once every
\* ingest that wrote has completed, each entry the cache holds is the
\* result of its read on the reports stored now: no entry was computed
\* before an ingest's write, so no cache hit omits an ingested report.
C15_NoStaleEntryAfterIngest ==
    (uuids > 0 /\ ~IngestMidFlight) =>
        \A key \in DOMAIN cache : cache[key] = FreshFor(key)

====
